---- MODULE Spec2Model ----
(***************************************************************************)
(* A model of rust-sitemap's src/structs.rs: the four field value types    *)
(* (Location, LastMod, ChangeFreq, Priority), their conversions from       *)
(* String, and the two staged builders (UrlEntryBuilder,                   *)
(* SiteMapEntryBuilder).                                                   *)
(*                                                                         *)
(* Strings whose characters the code inspects (the change-frequency token, *)
(* the priority literal) are sequences of one-character strings.  Strings  *)
(* handed whole to an external parser (Url::parse, parse_w3c_datetime) and *)
(* error messages are TLA+ strings.                                        *)
(*                                                                         *)
(* An f32 is a record [cls, neg, n, d]: cls "fin" is the number            *)
(* (-1)^neg * n / d with d a power of ten and n/d in lowest decimal form   *)
(* (so -0.0 is a value of its own), cls "inf" is the infinity of that      *)
(* sign, cls "nan" is NaN.  Rounding to f32 is monotone and leaves 0.0 and *)
(* 1.0 fixed, so for the short literals drawn here every comparison        *)
(* against 0.0 and 1.0 is the exact one.                                   *)
(***************************************************************************)
EXTENDS Integers, Sequences, FiniteSets, TLC

VARIABLES
    arg,            \* the String handed to a From<String> conversion
    out,            \* what the last conversion applied to arg returned
    kind,           \* which builder is being used: "none", "url", "sitemap"
    live,           \* TRUE while the builder value has not been consumed
    url_entry,      \* UrlEntryBuilder.url_entry
    sitemap_entry,  \* SiteMapEntryBuilder.sitemap_entry
    res,            \* the Result of the last builder call
    hist            \* the setter calls that returned Ok, oldest first

vars == <<arg, out, kind, live, url_entry, sitemap_entry, res, hist>>

\* ------------------------------------------------------------------ bounds

\* Longest priority literal generated over NumAlphabet.
MaxLen == 4
\* Most setter calls made on one builder before build().
MaxCalls == 4

\* ------------------------------------------------------------------ f32

F32(cls, neg, n, d) == [cls |-> cls, neg |-> neg, n |-> n, d |-> d]
NaN == F32("nan", FALSE, 0, 1)
Inf(neg) == F32("inf", neg, 0, 1)

RECURSIVE Normal(_, _, _)
Normal(neg, n, d) ==
    IF n = 0 THEN F32("fin", neg, 0, 1)
    ELSE IF d > 1 /\ n % 10 = 0 THEN Normal(neg, n \div 10, d \div 10)
    ELSE F32("fin", neg, n, d)

Zero == Normal(FALSE, 0, 1)
One == Normal(FALSE, 1, 1)

Signed(a) == IF a.neg THEN 0 - a.n ELSE a.n

\* a < b on f32 (IEEE 754: false when either side is NaN, -0.0 = 0.0).
Lt(a, b) ==
    /\ a.cls # "nan"
    /\ b.cls # "nan"
    /\ IF a.cls = "inf" THEN a.neg /\ ~(b.cls = "inf" /\ b.neg)
       ELSE IF b.cls = "inf" THEN ~b.neg
       ELSE Signed(a) * b.d < Signed(b) * a.d

Gt(a, b) == Lt(b, a)

\* a <= b on f32 (false when either side is NaN).
Le(a, b) == a.cls # "nan" /\ b.cls # "nan" /\ ~Lt(b, a)

\* ------------------------------------------------------------------ str::parse::<f32>

Digits == {"0", "1", "2", "3", "4", "5", "6", "7", "8", "9"}

DigitVal(c) ==
    CASE c = "0" -> 0 [] c = "1" -> 1 [] c = "2" -> 2 [] c = "3" -> 3
      [] c = "4" -> 4 [] c = "5" -> 5 [] c = "6" -> 6 [] c = "7" -> 7
      [] c = "8" -> 8 [] c = "9" -> 9

RECURSIVE DigitsLen(_)
DigitsLen(s) ==
    IF s = <<>> \/ Head(s) \notin Digits THEN 0 ELSE 1 + DigitsLen(Tail(s))

RECURSIVE DigitsVal(_)
DigitsVal(s) ==
    IF s = <<>> THEN 0
    ELSE 10 * DigitsVal(SubSeq(s, 1, Len(s) - 1)) + DigitVal(s[Len(s)])

RECURSIVE Pow10(_)
Pow10(k) == IF k = 0 THEN 1 ELSE 10 * Pow10(k - 1)

\* ASCII lower-casing of the letters of "nan", "inf" and "infinity".
AsciiLower(c) ==
    CASE c = "N" -> "n" [] c = "A" -> "a" [] c = "I" -> "i" [] c = "F" -> "f"
      [] c = "T" -> "t" [] c = "Y" -> "y" [] OTHER -> c

AsciiLowerStr(s) == [i \in 1..Len(s) |-> AsciiLower(s[i])]

ParseOk(v) == [ok |-> TRUE, value |-> v, kind |-> "none"]
ParseErr(k) == [ok |-> FALSE, value |-> Zero, kind |-> k]

\* The unsigned part: a decimal (digits, '.', digits, exponent) or inf / nan.
\* inf, infinity and nan are matched without regard to ASCII case, as the
\* standard library does since Rust 1.55; before that only "inf" and "NaN"
\* were accepted, which this accepts too.
ParseUnsigned(neg, r) ==
    LET i == DigitsLen(r)
        r1 == SubSeq(r, i + 1, Len(r))
        hasDot == r1 # <<>> /\ r1[1] = "."
        r2 == IF hasDot THEN Tail(r1) ELSE r1
        f == IF hasDot THEN DigitsLen(r2) ELSE 0
        r3 == SubSeq(r2, f + 1, Len(r2))
        hasExp == r3 # <<>> /\ r3[1] \in {"e", "E"}
        r4 == IF hasExp THEN Tail(r3) ELSE r3
        expNeg == hasExp /\ r4 # <<>> /\ r4[1] = "-"
        r5 == IF hasExp /\ r4 # <<>> /\ r4[1] \in {"-", "+"} THEN Tail(r4) ELSE r4
        e == DigitsVal(r5)
        mant == DigitsVal(SubSeq(r, 1, i) \o SubSeq(r2, 1, f))
        isNumber == /\ i + f >= 1
                    /\ IF hasExp THEN r5 # <<>> /\ DigitsLen(r5) = Len(r5)
                       ELSE r3 = <<>>
        low == AsciiLowerStr(r)
    IN  IF isNumber
        THEN ParseOk(IF hasExp /\ ~expNeg
                     THEN Normal(neg, mant * Pow10(e), Pow10(f))
                     ELSE Normal(neg, mant, Pow10(f) * Pow10(e)))
        ELSE IF low = <<"n", "a", "n">> THEN ParseOk(NaN)
        ELSE IF low = <<"i", "n", "f">>
                \/ low = <<"i", "n", "f", "i", "n", "i", "t", "y">>
        THEN ParseOk(Inf(neg))
        ELSE ParseErr("Invalid")

\* priority.parse::<f32>(): Ok(value) or Err(ParseFloatError { kind }).
ParseF32(s) ==
    IF s = <<>> THEN ParseErr("Empty")
    ELSE LET signed == s[1] \in {"-", "+"}
             r == IF signed THEN Tail(s) ELSE s
         IN  IF r = <<>> THEN ParseErr("Invalid")
             ELSE ParseUnsigned(s[1] = "-", r)

\* ------------------------------------------------------------------ Priority

PriorityNone == [tag |-> "None"]
PriorityValue(v) == [tag |-> "Value", value |-> v]
PriorityErr(k) == [tag |-> "Err", error |-> k]
ErrValueLesserZero(v) == [tag |-> "ErrValueLesserZero", value |-> v]
ErrValueGreaterOne(v) == [tag |-> "ErrValueGreaterOne", value |-> v]

\* PriorityFrom with the bounds excluded (>= and <= for > and <).
PriorityFrom_BoundsExcluded(priority) ==
    LET value == ParseF32(priority)
    IN  IF value.ok
        THEN IF ~Lt(value.value, One) /\ value.value.cls # "nan"
             THEN ErrValueGreaterOne(value.value)
             ELSE IF ~Gt(value.value, Zero) /\ value.value.cls # "nan"
             THEN ErrValueLesserZero(value.value)
             ELSE PriorityValue(value.value)
        ELSE PriorityErr(value.kind)

\* impl From<String> for Priority
PriorityFrom(priority) ==
    LET value == ParseF32(priority)
    IN  IF value.ok
        THEN IF Gt(value.value, One) THEN ErrValueGreaterOne(value.value)
             ELSE IF Lt(value.value, Zero) THEN ErrValueLesserZero(value.value)
             ELSE PriorityValue(value.value)
        ELSE PriorityErr(value.kind)

\* ------------------------------------------------------------------ ChangeFreq

ChangeFreqNone == [tag |-> "None"]
Always == [tag |-> "Always"]
Hourly == [tag |-> "Hourly"]
Daily == [tag |-> "Daily"]
Weekly == [tag |-> "Weekly"]
Monthly == [tag |-> "Monthly"]
Yearly == [tag |-> "Yearly"]
Never == [tag |-> "Never"]
\* ChangeFreq::Err(ChangeFreqParseError::new(description))
ChangeFreqErr(description) == [tag |-> "Err", description |-> description]

UpperLetters ==
    <<"A", "B", "C", "D", "E", "F", "G", "H", "I", "J", "K", "L", "M",
      "N", "O", "P", "Q", "R", "S", "T", "U", "V", "W", "X", "Y", "Z">>
LowerLetters ==
    <<"a", "b", "c", "d", "e", "f", "g", "h", "i", "j", "k", "l", "m",
      "n", "o", "p", "q", "r", "s", "t", "u", "v", "w", "x", "y", "z">>

\* char::to_lowercase on the characters drawn here.  It is Unicode's mapping,
\* not ASCII's: "KELVIN" stands for the one character U+212A (KELVIN SIGN),
\* whose lower case is 'k'; "LONG_S" stands for U+017F (LATIN SMALL LETTER
\* LONG S), which is lower case already.
LowerChar(c) ==
    IF \E i \in 1..26 : UpperLetters[i] = c
    THEN LowerLetters[CHOOSE i \in 1..26 : UpperLetters[i] = c]
    ELSE IF c = "KELVIN" THEN "k"
    ELSE c

\* str::to_lowercase
to_lowercase(s) == [i \in 1..Len(s) |-> LowerChar(s[i])]

\* as_str with Yearly's arm a copy of Never's.
as_str_YearlyAsNever(self) ==
    CASE self.tag = "None" -> <<>>
      [] self.tag = "Always" -> <<"a", "l", "w", "a", "y", "s">>
      [] self.tag = "Hourly" -> <<"h", "o", "u", "r", "l", "y">>
      [] self.tag = "Daily" -> <<"d", "a", "i", "l", "y">>
      [] self.tag = "Weekly" -> <<"w", "e", "e", "k", "l", "y">>
      [] self.tag = "Monthly" -> <<"m", "o", "n", "t", "h", "l", "y">>
      [] self.tag = "Yearly" -> <<"n", "e", "v", "e", "r">>
      [] self.tag = "Never" -> <<"n", "e", "v", "e", "r">>
      [] self.tag = "Err" -> <<>>

\* ChangeFreq::as_str
as_str(self) ==
    CASE self.tag = "None" -> <<>>
      [] self.tag = "Always" -> <<"a", "l", "w", "a", "y", "s">>
      [] self.tag = "Hourly" -> <<"h", "o", "u", "r", "l", "y">>
      [] self.tag = "Daily" -> <<"d", "a", "i", "l", "y">>
      [] self.tag = "Weekly" -> <<"w", "e", "e", "k", "l", "y">>
      [] self.tag = "Monthly" -> <<"m", "o", "n", "t", "h", "l", "y">>
      [] self.tag = "Yearly" -> <<"y", "e", "a", "r", "l", "y">>
      [] self.tag = "Never" -> <<"n", "e", "v", "e", "r">>
      [] self.tag = "Err" -> <<>>

\* ChangeFreqFrom with the Err arm carrying lowercase_time for time.
ChangeFreqFrom_ErrLowercased(time) ==
    LET lowercase_time == to_lowercase(time)
    IN  CASE lowercase_time = <<"a", "l", "w", "a", "y", "s">> -> Always
          [] lowercase_time = <<"h", "o", "u", "r", "l", "y">> -> Hourly
          [] lowercase_time = <<"d", "a", "i", "l", "y">> -> Daily
          [] lowercase_time = <<"w", "e", "e", "k", "l", "y">> -> Weekly
          [] lowercase_time = <<"m", "o", "n", "t", "h", "l", "y">> -> Monthly
          [] lowercase_time = <<"y", "e", "a", "r", "l", "y">> -> Yearly
          [] lowercase_time = <<"n", "e", "v", "e", "r">> -> Never
          [] OTHER -> ChangeFreqErr(lowercase_time)

\* impl From<String> for ChangeFreq
ChangeFreqFrom(time) ==
    LET lowercase_time == to_lowercase(time)
    IN  CASE lowercase_time = <<"a", "l", "w", "a", "y", "s">> -> Always
          [] lowercase_time = <<"h", "o", "u", "r", "l", "y">> -> Hourly
          [] lowercase_time = <<"d", "a", "i", "l", "y">> -> Daily
          [] lowercase_time = <<"w", "e", "e", "k", "l", "y">> -> Weekly
          [] lowercase_time = <<"m", "o", "n", "t", "h", "l", "y">> -> Monthly
          [] lowercase_time = <<"y", "e", "a", "r", "l", "y">> -> Yearly
          [] lowercase_time = <<"n", "e", "v", "e", "r">> -> Never
          [] OTHER -> ChangeFreqErr(time)

\* ------------------------------------------------------------------ Location, LastMod

LocationNone == [tag |-> "None"]
LocationUrl(url) == [tag |-> "Url", url |-> url]
LocationErr(error) == [tag |-> "Err", error |-> error]

\* Url::parse of the url crate, on the strings drawn here: the serialisation
\* of the parsed Url (host lower-cased, empty path made "/") or the ParseError.
UrlParse(url) ==
    CASE url = "https://example.com/page" ->
            [ok |-> TRUE, url |-> "https://example.com/page"]
      [] url = "http://Example.com" ->
            [ok |-> TRUE, url |-> "http://example.com/"]
      [] url = "not a url" ->
            [ok |-> FALSE, error |-> "RelativeUrlWithoutBase"]

\* impl From<String> for Location
LocationFrom(url) ==
    LET parsed == UrlParse(url)
    IN  IF parsed.ok THEN LocationUrl(parsed.url) ELSE LocationErr(parsed.error)

LastModNone == [tag |-> "None"]
LastModDateTime(date) == [tag |-> "DateTime", date |-> date]
LastModErr(error) == [tag |-> "Err", error |-> error]

\* ------------------------------------------------------------------ Result<_, Error>

Ok(value) == [ok |-> TRUE, value |-> value]
\* Err(Error::Invalid(msg))
ErrInvalid(msg) == [ok |-> FALSE, error |-> "Invalid", msg |-> msg]

\* ------------------------------------------------------------------ UrlEntry, UrlEntryBuilder

\* UrlEntry::new
UrlEntry_new ==
    [loc |-> LocationNone, lastmod |-> LastModNone,
     changefreq |-> ChangeFreqNone, priority |-> PriorityNone]

\* loc failing at the setter when the string does not parse.
UrlEntryBuilder_loc_FailsEagerly(self, url) ==
    IF LocationFrom(url).tag = "Url"
    THEN Ok([self EXCEPT !.loc = LocationFrom(url)])
    ELSE ErrInvalid("Required a location in the Url")

\* UrlEntryBuilder::loc
UrlEntryBuilder_loc(self, url) == Ok([self EXCEPT !.loc = LocationFrom(url)])

\* lastmod writing into a fresh entry, not into self.
UrlEntryBuilder_lastmod_FromNew(self, date) ==
    Ok([UrlEntry_new EXCEPT !.lastmod = LastModDateTime(date)])

\* UrlEntryBuilder::lastmod
UrlEntryBuilder_lastmod(self, date) ==
    Ok([self EXCEPT !.lastmod = LastModDateTime(date)])

\* changefreq dropping an Err variant.
UrlEntryBuilder_changefreq_DropsErr(self, changefreq) ==
    Ok([self EXCEPT !.changefreq =
            IF changefreq.tag = "Err" THEN ChangeFreqNone ELSE changefreq])

\* UrlEntryBuilder::changefreq
UrlEntryBuilder_changefreq(self, changefreq) ==
    Ok([self EXCEPT !.changefreq = changefreq])

\* priority recording an out-of-range value as a variant, as Priority::from does.
UrlEntryBuilder_priority_Deferred(self, val) ==
    Ok([self EXCEPT !.priority =
            IF Gt(val, One) THEN ErrValueGreaterOne(val)
            ELSE IF Lt(val, Zero) THEN ErrValueLesserZero(val)
            ELSE PriorityValue(val)])

\* UrlEntryBuilder::priority
UrlEntryBuilder_priority(self, val) ==
    IF Gt(val, One) \/ Lt(val, Zero)
    THEN ErrInvalid("priority should be betwheen 0 and 1")
    ELSE Ok([self EXCEPT !.priority = PriorityValue(val)])

\* build without the check of loc.
UrlEntryBuilder_build_Unchecked(self) == Ok(self)

\* UrlEntryBuilder::build
UrlEntryBuilder_build(self) ==
    IF self.loc.tag = "Url" THEN Ok(self)
    ELSE ErrInvalid("Required a location in the Url")

\* ------------------------------------------------------------------ SiteMapEntry, SiteMapEntryBuilder

\* SiteMapEntry::new
SiteMapEntry_new == [loc |-> LocationNone, lastmod |-> LastModNone]

\* SiteMapEntryBuilder::loc
SiteMapEntryBuilder_loc(self, url) == Ok([self EXCEPT !.loc = LocationFrom(url)])

\* SiteMapEntryBuilder::lastmod
SiteMapEntryBuilder_lastmod(self, date) ==
    Ok([self EXCEPT !.lastmod = LastModDateTime(date)])

\* SiteMapEntryBuilder::build
SiteMapEntryBuilder_build(self) ==
    IF self.loc.tag = "Url" THEN Ok(self)
    ELSE ErrInvalid("Required a location in the sitemap")

\* ------------------------------------------------------------------ inputs

\* Strings handed to loc(): two that Url::parse accepts, one it rejects.
UrlStrings == {"https://example.com/page", "http://Example.com", "not a url"}

\* Already parsed DateTime<FixedOffset> values handed to lastmod().
Dates == {"2024-01-15T10:00:00+00:00", "1999-12-31T23:59:59-05:00"}

\* Change-frequency strings a caller converts and hands to changefreq():
\* "Weekly", "Fortnightly" and "".
CfSamples ==
    { <<"W", "e", "e", "k", "l", "y">>,
      <<"F", "o", "r", "t", "n", "i", "g", "h", "t", "l", "y">>,
      <<>> }

ChangeFreqArgs == {ChangeFreqNone} \cup {ChangeFreqFrom(s) : s \in CfSamples}

\* f32 values handed to priority(): -0.5, -0.0, 0.0, 0.5, 1.0, 1.5, NaN, the
\* two infinities.
F32Args ==
    { Normal(TRUE, 5, 10), Normal(TRUE, 0, 1), Zero, Normal(FALSE, 5, 10), One,
      Normal(FALSE, 15, 10), NaN, Inf(FALSE), Inf(TRUE) }

\* ------------------------------------------------------------------ the builders' calls

\* The arguments of a call, as a record: [url |-> ..] for loc, [date |-> ..]
\* for lastmod, [changefreq |-> ..] for changefreq, [val |-> ..] for priority.
NoArgs == [none |-> TRUE]

NoCall == [op |-> "none", arg |-> NoArgs, r |-> Ok(UrlEntry_new)]

Init ==
    /\ arg = <<>>
    /\ out = [fn |-> "none"]
    /\ kind = "none"
    /\ live = FALSE
    /\ url_entry = UrlEntry_new
    /\ sitemap_entry = SiteMapEntry_new
    /\ res = NoCall
    /\ hist = <<>>

\* UrlEntry::builder(): a new builder; the one in scope before is dropped.
UrlEntry_builder ==
    /\ kind' = "url"
    /\ live' = TRUE
    /\ url_entry' = UrlEntry_new
    /\ sitemap_entry' = SiteMapEntry_new
    /\ res' = [op |-> "builder", arg |-> NoArgs, r |-> Ok(UrlEntry_new)]
    /\ hist' = <<>>
    /\ UNCHANGED <<arg, out>>

\* SiteMapEntry::builder()
SiteMapEntry_builder ==
    /\ kind' = "sitemap"
    /\ live' = TRUE
    /\ url_entry' = UrlEntry_new
    /\ sitemap_entry' = SiteMapEntry_new
    /\ res' = [op |-> "builder", arg |-> NoArgs, r |-> Ok(SiteMapEntry_new)]
    /\ hist' = <<>>
    /\ UNCHANGED <<arg, out>>

\* A setter takes the builder by value: on Ok the caller has the updated
\* builder back, on Err the builder is gone.
UrlSetter(op, a, r) ==
    /\ kind = "url"
    /\ live
    /\ Len(hist) < MaxCalls
    /\ res' = [op |-> op, arg |-> a, r |-> r]
    /\ IF r.ok
       THEN /\ url_entry' = r.value
            /\ hist' = Append(hist, [op |-> op, arg |-> a])
            /\ live' = TRUE
       ELSE /\ live' = FALSE
            /\ UNCHANGED <<url_entry, hist>>
    /\ UNCHANGED <<arg, out, kind, sitemap_entry>>

Url_loc == \E url \in UrlStrings : UrlSetter("loc", [url |-> url], UrlEntryBuilder_loc(url_entry, url))

Url_lastmod ==
    \E date \in Dates : UrlSetter("lastmod", [date |-> date], UrlEntryBuilder_lastmod(url_entry, date))

Url_changefreq ==
    \E cf \in ChangeFreqArgs :
        UrlSetter("changefreq", [changefreq |-> cf], UrlEntryBuilder_changefreq(url_entry, cf))

Url_priority ==
    \E val \in F32Args :
        UrlSetter("priority", [val |-> val], UrlEntryBuilder_priority(url_entry, val))

\* build() consumes the builder.
Url_build ==
    /\ kind = "url"
    /\ live
    /\ res' = [op |-> "build", arg |-> NoArgs, r |-> UrlEntryBuilder_build(url_entry)]
    /\ live' = FALSE
    /\ UNCHANGED <<arg, out, kind, url_entry, sitemap_entry, hist>>

SiteMapSetter(op, a, r) ==
    /\ kind = "sitemap"
    /\ live
    /\ Len(hist) < MaxCalls
    /\ res' = [op |-> op, arg |-> a, r |-> r]
    /\ IF r.ok
       THEN /\ sitemap_entry' = r.value
            /\ hist' = Append(hist, [op |-> op, arg |-> a])
            /\ live' = TRUE
       ELSE /\ live' = FALSE
            /\ UNCHANGED <<sitemap_entry, hist>>
    /\ UNCHANGED <<arg, out, kind, url_entry>>

SiteMap_loc ==
    \E url \in UrlStrings :
        SiteMapSetter("loc", [url |-> url], SiteMapEntryBuilder_loc(sitemap_entry, url))

SiteMap_lastmod ==
    \E date \in Dates :
        SiteMapSetter("lastmod", [date |-> date], SiteMapEntryBuilder_lastmod(sitemap_entry, date))

SiteMap_build ==
    /\ kind = "sitemap"
    /\ live
    /\ res' = [op |-> "build", arg |-> NoArgs, r |-> SiteMapEntryBuilder_build(sitemap_entry)]
    /\ live' = FALSE
    /\ UNCHANGED <<arg, out, kind, url_entry, sitemap_entry, hist>>

Next ==
    \/ UrlEntry_builder
    \/ Url_loc
    \/ Url_lastmod
    \/ Url_changefreq
    \/ Url_priority
    \/ Url_build
    \/ SiteMapEntry_builder
    \/ SiteMap_loc
    \/ SiteMap_lastmod
    \/ SiteMap_build

Spec == Init /\ [][Next]_vars

\* ------------------------------------------------------------------ the conversions' inputs

\* The seven canonical tokens of the sitemap protocol, with their enumerants.
CanonicalTokens ==
    { [cf |-> Always, token |-> <<"a", "l", "w", "a", "y", "s">>],
      [cf |-> Hourly, token |-> <<"h", "o", "u", "r", "l", "y">>],
      [cf |-> Daily, token |-> <<"d", "a", "i", "l", "y">>],
      [cf |-> Weekly, token |-> <<"w", "e", "e", "k", "l", "y">>],
      [cf |-> Monthly, token |-> <<"m", "o", "n", "t", "h", "l", "y">>],
      [cf |-> Yearly, token |-> <<"y", "e", "a", "r", "l", "y">>],
      [cf |-> Never, token |-> <<"n", "e", "v", "e", "r">>] }

Enumerants == {ct.cf : ct \in CanonicalTokens}

TokenOf(e) == (CHOOSE ct \in CanonicalTokens : ct.cf = e).token

\* The letter-casings of a lower-case letter: itself, its capital and, for
\* 'k', the Kelvin sign (an upper-case letter of Unicode whose lower case is k).
CaseForms(c) ==
    {c} \cup {UpperLetters[i] : i \in {j \in 1..26 : LowerLetters[j] = c}}
        \cup (IF c = "k" THEN {"KELVIN"} ELSE {})

\* Every letter-casing of a lower-case token.
RECURSIVE Casings(_)
Casings(t) ==
    IF t = <<>> THEN {<<>>}
    ELSE {<<c>> \o r : c \in CaseForms(Head(t)), r \in Casings(Tail(t))}

AllCasings == UNION {Casings(ct.token) : ct \in CanonicalTokens}

AllUpper(t) == [i \in 1..Len(t) |-> UpperLetters[CHOOSE j \in 1..26 : LowerLetters[j] = t[i]]]

\* Near misses of a token: padded, cut short, lengthened, its s or k replaced
\* by a look-alike that is no casing of it.
NearMisses(t) ==
    { t \o <<" ">>, <<" ">> \o t, SubSeq(t, 1, Len(t) - 1), t \o <<"s">>, t \o t,
      [i \in 1..Len(t) |-> IF t[i] = "s" THEN "LONG_S" ELSE IF t[i] = "k" THEN "c" ELSE t[i]] }
    \ {t}

NonTokens ==
    UNION {NearMisses(ct.token) \cup NearMisses(AllUpper(ct.token)) : ct \in CanonicalTokens}
    \cup CfSamples \cup {<<"N", "o", "n", "e">>, <<"E", "r", "r">>}

\* Priority literals: every string of at most MaxLen characters over
\* NumAlphabet, and some with letters, an exponent or a stray character.
NumAlphabet == {"-", "+", "0", "1", "5", "."}

NumStrings == UNION {[1..n -> NumAlphabet] : n \in 0..MaxLen}

SpecialStrings ==
    { <<"N", "a", "N">>, <<"n", "a", "n">>, <<"-", "N", "a", "N">>,
      <<"i", "n", "f">>, <<"-", "i", "n", "f">>, <<"+", "i", "n", "f">>,
      <<"i", "n", "f", "i", "n", "i", "t", "y">>,
      <<"i", "n", "f", "i", "n">>,
      <<"1", "e", "1">>, <<"5", "e", "-", "1">>, <<"1", "e">>, <<"-", "1", "e", "-", "1">>,
      <<"0", ".", "8">>, <<"1", ".", "0", "0", "0", "0", "1">>,
      <<"-", "0", ".", "0", "0", "0", "0", "1">>,
      <<"1", ".", "0", "x">>, <<" ", "1">>, <<"0", ",", "5">>, <<"0", "x", "1">> }

Inputs == AllCasings \cup NonTokens \cup NumStrings \cup SpecialStrings

\* ------------------------------------------------------------------ the conversions applied

InitConv ==
    /\ arg \in Inputs
    /\ out = [fn |-> "none"]
    /\ kind = "none"
    /\ live = FALSE
    /\ url_entry = UrlEntry_new
    /\ sitemap_entry = SiteMapEntry_new
    /\ res = NoCall
    /\ hist = <<>>

\* ChangeFreq::from(arg)
ApplyChangeFreqFrom ==
    /\ out' = [fn |-> "ChangeFreq::from", val |-> ChangeFreqFrom(arg)]
    /\ UNCHANGED <<arg, kind, live, url_entry, sitemap_entry, res, hist>>

\* Priority::from(arg)
ApplyPriorityFrom ==
    /\ out' = [fn |-> "Priority::from", val |-> PriorityFrom(arg)]
    /\ UNCHANGED <<arg, kind, live, url_entry, sitemap_entry, res, hist>>

\* ChangeFreq::from(self.as_str().to_string()), for self any enumerant, None,
\* or what arg converts to.
ApplyAsStrThenFrom ==
    \E self \in Enumerants \cup {ChangeFreqNone, ChangeFreqFrom(arg)} :
        /\ out' = [fn |-> "as_str", self |-> self, str |-> as_str(self),
                   val |-> ChangeFreqFrom(as_str(self))]
        /\ UNCHANGED <<arg, kind, live, url_entry, sitemap_entry, res, hist>>

NextConv ==
    \/ ApplyChangeFreqFrom
    \/ ApplyPriorityFrom
    \/ ApplyAsStrThenFrom

SpecConv == InitConv /\ [][NextConv]_vars

\* ------------------------------------------------------------------ properties

HasCall(op) == \E i \in 1..Len(hist) : hist[i].op = op

\* The argument of the most recent call of setter op that returned Ok.
LastCall(op) ==
    hist[CHOOSE i \in 1..Len(hist) :
            hist[i].op = op /\ \A j \in (i + 1)..Len(hist) : hist[j].op # op].arg

\* The entry the builder in scope holds (or held when it was consumed).
Stored == IF kind = "sitemap" THEN sitemap_entry ELSE url_entry

Built == kind # "none" /\ res.op = "build"

InRange(v) == Le(Zero, v) /\ Le(v, One)

\* C1: for both builders build() returns Ok(entry) exactly when the stored loc
\* is the Location::Url variant; when loc was never set (None) or the last loc
\* string did not parse (Err) it returns Err(Error::Invalid), whatever the
\* other fields hold.
C1_BuildOkIffLocIsUrl ==
    Built =>
        /\ res.r.ok <=> Stored.loc.tag = "Url"
        /\ res.r.ok <=> (HasCall("loc") /\ UrlParse(LastCall("loc").url).ok)
        /\ res.r.ok => res.r.value = Stored
        /\ ~res.r.ok => res.r.error = "Invalid"

\* loc = "not a url" with a priority in range set: build() fails.
C1_Witness ==
    /\ Built
    /\ kind = "url"
    /\ ~res.r.ok
    /\ HasCall("loc")
    /\ LastCall("loc").url = "not a url"
    /\ url_entry.priority = PriorityValue(Normal(FALSE, 5, 10))

\* C2: every Priority::Value(v), from Priority::from(String) or from
\* UrlEntryBuilder::priority(val), has 0.0 <= v <= 1.0 (NaN and the
\* infinities included among the inputs).
C2_ValueAlwaysInRange ==
    /\ (out.fn = "Priority::from" /\ out.val.tag = "Value") => InRange(out.val.value)
    /\ url_entry.priority.tag = "Value" => InRange(url_entry.priority.value)

\* C3: priority(val) with val outside [0.0, 1.0] fails at the setter with
\* Error::Invalid("priority should be between 0 and 1."); with val in
\* [0.0, 1.0], bounds included, it returns Ok with priority = Value(val).
C3_PrioritySetter ==
    (kind = "url" /\ res.op = "priority") =>
        IF InRange(res.arg.val)
        THEN res.r.ok /\ res.r.value.priority = PriorityValue(res.arg.val)
        ELSE /\ ~res.r.ok
             /\ res.r.error = "Invalid"
             /\ res.r.msg = "priority should be between 0 and 1."

\* C4: ChangeFreq::from is total and case-insensitive: every letter-casing of
\* a canonical token gives that token's enumerant, every other string s gives
\* Err with description s in its original casing, and None is never given.
C4_ChangeFreqFromCaseInsensitive ==
    out.fn = "ChangeFreq::from" =>
        /\ out.val.tag # "None"
        /\ \A ct \in CanonicalTokens : arg \in Casings(ct.token) => out.val = ct.cf
        /\ arg \notin AllCasings => out.val = ChangeFreqErr(arg)

\* "DaIlY" converts to Daily.
C4_Witness ==
    /\ out.fn = "ChangeFreq::from"
    /\ arg = <<"D", "a", "I", "l", "Y">>
    /\ out.val = Daily

\* C5: as_str gives each enumerant its own lower-case token and gives None and
\* Err the empty string; converting an enumerant's as_str back gives it again.
C5_AsStrRoundTrip ==
    out.fn = "as_str" =>
        /\ out.self \in Enumerants =>
              /\ out.str = TokenOf(out.self)
              /\ out.val = out.self
        /\ out.self.tag \in {"None", "Err"} => out.str = <<>>

\* Weekly -> "weekly" -> Weekly.
C5_Witness ==
    /\ out.fn = "as_str"
    /\ out.self = Weekly
    /\ out.str = <<"w", "e", "e", "k", "l", "y">>
    /\ out.val = Weekly

\* C6: a UrlEntryBuilder with a loc that parses and a changefreq converted
\* from an unrecognized string s builds Ok, and the entry's changefreq is Err
\* carrying exactly s.
C6_UnrecognizedChangeFreqCarried ==
    \A s \in CfSamples \ AllCasings :
        ( /\ Built
          /\ kind = "url"
          /\ HasCall("loc")
          /\ UrlParse(LastCall("loc").url).ok
          /\ HasCall("changefreq")
          /\ LastCall("changefreq").changefreq = ChangeFreqFrom(s) )
        => /\ res.r.ok
           /\ res.r.value.changefreq.tag = "Err"
           /\ res.r.value.changefreq.description = s

\* loc valid, changefreq from "Fortnightly": built with Err("Fortnightly").
C6_Witness ==
    /\ Built
    /\ kind = "url"
    /\ res.r.ok
    /\ HasCall("changefreq")
    /\ res.r.value.changefreq =
          ChangeFreqErr(<<"F", "o", "r", "t", "n", "i", "g", "h", "t", "l", "y">>)

\* C7: Priority::from is total: no parse -> Err with the parse error;
\* v < 0.0 -> ErrValueLesserZero(v); v > 1.0 -> ErrValueGreaterOne(v);
\* 0.0 <= v <= 1.0, both bounds included -> Value(v); never None.
C7_PriorityFromClassifies ==
    out.fn = "Priority::from" =>
        LET p == ParseF32(arg)
            v == out.val
        IN  /\ v.tag \in {"Err", "ErrValueLesserZero", "ErrValueGreaterOne", "Value"}
            /\ ~p.ok => v = PriorityErr(p.kind)
            /\ (p.ok /\ Lt(p.value, Zero)) => v = ErrValueLesserZero(p.value)
            /\ (p.ok /\ Gt(p.value, One)) => v = ErrValueGreaterOne(p.value)
            /\ (p.ok /\ InRange(p.value)) => v = PriorityValue(p.value)
            /\ arg = <<>> => v = PriorityErr("Empty")
            /\ arg = <<"-">> => v = PriorityErr("Invalid")
            /\ arg = <<"0">> => v = PriorityValue(Zero)
            /\ arg = <<"1">> => v = PriorityValue(One)
            /\ arg = <<"1", ".", "0">> => v = PriorityValue(One)
            /\ arg = <<"0", ".", "5">> => v = PriorityValue(F32("fin", FALSE, 5, 10))
            /\ arg = <<"1", ".", "5">> => v = ErrValueGreaterOne(F32("fin", FALSE, 15, 10))
            /\ arg = <<"-", ".", "5">> => v = ErrValueLesserZero(F32("fin", TRUE, 5, 10))
            /\ arg = <<"i", "n", "f">> => v = ErrValueGreaterOne(Inf(FALSE))
            /\ arg = <<"-", "i", "n", "f">> => v = ErrValueLesserZero(Inf(TRUE))

\* "1.0" converts to Value(1.0): the upper bound is in range.
C7_Witness ==
    /\ out.fn = "Priority::from"
    /\ arg = <<"1", ".", "0">>
    /\ out.val = PriorityValue(One)

\* C8: loc, lastmod and changefreq (and the sitemap builder's loc and lastmod)
\* return Ok for every argument, loc storing Url or Err as the string parsed;
\* Err comes only from build() when loc is not Url and from priority() when
\* its argument is out of range.
C8_OnlyBuildAndPriorityFail ==
    /\ res.op \in {"loc", "lastmod", "changefreq"} => res.r.ok
    /\ res.op = "loc" =>
          /\ Stored.loc = res.r.value.loc
          /\ Stored.loc.tag = (IF UrlParse(res.arg.url).ok THEN "Url" ELSE "Err")
    /\ ~res.r.ok =>
          \/ res.op = "build" /\ Stored.loc.tag # "Url"
          \/ /\ res.op = "priority"
             /\ kind = "url"
             /\ (Gt(res.arg.val, One) \/ Lt(res.arg.val, Zero))

\* loc("not a url") returned Ok and stored Location::Err.
C8_Witness ==
    /\ res.op = "loc"
    /\ res.arg.url = "not a url"
    /\ res.r.ok
    /\ Stored.loc.tag = "Err"

\* What the calls made so far say each field holds: the value of the most
\* recent Ok call of its setter, None if there was none.
ExpectedLoc == IF HasCall("loc") THEN LocationFrom(LastCall("loc").url) ELSE LocationNone
ExpectedLastMod ==
    IF HasCall("lastmod") THEN LastModDateTime(LastCall("lastmod").date) ELSE LastModNone
ExpectedChangeFreq ==
    IF HasCall("changefreq") THEN LastCall("changefreq").changefreq ELSE ChangeFreqNone
ExpectedPriority ==
    IF HasCall("priority") THEN PriorityValue(LastCall("priority").val) ELSE PriorityNone

ExpectedEntry ==
    IF kind = "sitemap"
    THEN [loc |-> ExpectedLoc, lastmod |-> ExpectedLastMod]
    ELSE [loc |-> ExpectedLoc, lastmod |-> ExpectedLastMod,
          changefreq |-> ExpectedChangeFreq, priority |-> ExpectedPriority]

\* C9: from builder(), with every field None, each Ok setter call changes its
\* own field only, so each field holds its setter's most recent value (last
\* write wins, a later unparseable loc failing build()) or None, and the
\* built entry does not depend on the order of the calls.
C9_LastWriteWins ==
    /\ Stored = ExpectedEntry
    /\ Built => IF ExpectedLoc.tag = "Url"
                THEN res.r.ok /\ res.r.value = ExpectedEntry
                ELSE ~res.r.ok

\* A valid loc, then an unparseable loc, then build(): it fails.
C9_Witness ==
    /\ Built
    /\ ~res.r.ok
    /\ \E i, j \in 1..Len(hist) :
          /\ i < j
          /\ hist[i].op = "loc" /\ UrlParse(hist[i].arg.url).ok
          /\ hist[j].op = "loc" /\ ~UrlParse(hist[j].arg.url).ok

\* C10: every entry build() returns Ok has loc Url, lastmod None or DateTime
\* and (UrlEntry) priority None or Value: of a built entry's fields only
\* changefreq can hold an error variant.
C10_BuiltEntryVariants ==
    (Built /\ res.r.ok) =>
        /\ res.r.value.loc.tag = "Url"
        /\ res.r.value.lastmod.tag \in {"None", "DateTime"}
        /\ kind = "url" => res.r.value.priority.tag \in {"None", "Value"}

\* A built UrlEntry with lastmod and priority set and changefreq an Err.
C10_Witness ==
    /\ Built
    /\ kind = "url"
    /\ res.r.ok
    /\ res.r.value.lastmod.tag = "DateTime"
    /\ res.r.value.priority.tag = "Value"
    /\ res.r.value.changefreq.tag = "Err"

====
